---- MODULE Spec2Model ----
(***************************************************************************)
(* axios-queue-interceptor: the per-group request queue (RequestQueue) and *)
(* the interceptors that setupQueue installs on an Axios instance.         *)
(*                                                                         *)
(* One action per handler: the request interceptor (Request), the two      *)
(* response interceptors (Response with outcome "success" or "error"), the *)
(* setTimeout callback scheduled by finish (TimerFire), the passing of     *)
(* time (Tick) and the ejector returned by setupQueue (Eject).             *)
(***************************************************************************)
EXTENDS Integers, Sequences, FiniteSets, TLC

(* ------------------------------------------------------------------ *)
(* Optional values (a TypeScript `x?: T`): {} is undefined, {v} is v.  *)
(* ------------------------------------------------------------------ *)
Undefined == {}
Some(x) == {x}
Get(o) == CHOOSE x \in o : TRUE
\* o ?? d
OrElse(o, d) == IF o = Undefined THEN d ELSE Get(o)

(* ------------------------------------------------------------------ *)
(* Program constants and model bounds                                  *)
(* ------------------------------------------------------------------ *)
\* constructor (name, maxConcurrent = 2, debug = false)
DefaultMaxConcurrent == 2
\* enqueue (id, delayMs = 300, priority?)
DefaultDelayMs == 300
\* milliseconds that pass in one Tick step
TickMs == 100
\* requests issued in one run of Spec / PrioSpec / FifoSpec / LiveSpec
MaxReq == 3
MaxReqPrio == 4
MaxReqFifo == 5
MaxReqLive == 3
\* timers pending when finish is called directly in ApiSpec
MaxTimers == 2

VARIABLES
  _queues,       \* instance._queues: group key -> RequestQueue
  _counter,      \* instance._counter
  timers,        \* pending setTimeout callbacks scheduled by finish
  requests,      \* the request configs issued so far, by _queueID
  interceptors   \* TRUE while the two interceptors are installed

vars == <<_queues, _counter, timers, requests, interceptors>>

(* ------------------------------------------------------------------ *)
(* PriorityQueue<Entry> of @datastructures-js/priority-queue: a binary *)
(* heap kept in an array (1-based here). An entry moves up or down     *)
(* only past one that compares strictly greater or smaller (> 0), and  *)
(* of two children that compare equal the left one is taken.           *)
(* ------------------------------------------------------------------ *)
\* the comparator with the two priorities subtracted the other way round
compareDescending(a, b) ==
  IF a.priority = Undefined
    THEN IF b.priority = Undefined
           THEN a.order - b.order
           ELSE -1
    ELSE IF b.priority = Undefined
           THEN 1
           ELSE Get(b.priority) - Get(a.priority)

\* the comparator handed to the PriorityQueue constructor
compare(a, b) ==
  IF a.priority = Undefined
    THEN IF b.priority = Undefined
           THEN a.order - b.order
           ELSE -1
    ELSE IF b.priority = Undefined
           THEN 1
           ELSE Get(a.priority) - Get(b.priority)

swap(nodes, i, j) ==
  [nodes EXCEPT ![i] = nodes[j], ![j] = nodes[i]]

RECURSIVE heapifyUp(_, _)
heapifyUp(nodes, child) ==
  LET parent == child \div 2 IN
  IF parent >= 1 /\ compare(nodes[parent], nodes[child]) > 0
    THEN heapifyUp(swap(nodes, parent, child), parent)
    ELSE nodes

\* the smaller child of parent (the left one on a tie), 0 when it has none
compareChildrenOf(nodes, parent) ==
  LET left == 2 * parent
      right == 2 * parent + 1 IN
  IF left > Len(nodes) THEN 0
  ELSE IF right > Len(nodes) THEN left
  ELSE IF compare(nodes[left], nodes[right]) > 0 THEN right ELSE left

RECURSIVE heapifyDown(_, _)
heapifyDown(nodes, parent) ==
  LET child == compareChildrenOf(nodes, parent) IN
  IF child # 0 /\ compare(nodes[parent], nodes[child]) > 0
    THEN heapifyDown(swap(nodes, parent, child), child)
    ELSE nodes

\* queue.enqueue(entry)
insert(nodes, entry) == heapifyUp(Append(nodes, entry), Len(nodes) + 1)

\* queue.dequeue(): the array left once the root is taken out
extractRoot(nodes) ==
  IF Len(nodes) <= 1 THEN <<>>
  ELSE heapifyDown([i \in 1..(Len(nodes) - 1) |->
                      IF i = 1 THEN nodes[Len(nodes)] ELSE nodes[i]], 1)

\* queue.front()
root(nodes) == nodes[1]

isEmpty(nodes) == Len(nodes) = 0

size(nodes) == Len(nodes)

(* ------------------------------------------------------------------ *)
(* Map<number, number>                                                 *)
(* ------------------------------------------------------------------ *)
MapSet(m, k, v) == [x \in (DOMAIN m) \cup {k} |-> IF x = k THEN v ELSE m[x]]
MapDelete(m, k) == [x \in (DOMAIN m) \ {k} |-> m[x]]
MapGet(m, k) == IF k \in DOMAIN m THEN Some(m[k]) ELSE Undefined
MapSize(m) == Cardinality(DOMAIN m)

(* ------------------------------------------------------------------ *)
(* RequestQueue                                                        *)
(* ------------------------------------------------------------------ *)
\* new RequestQueue(name, maxConcurrent, debug)
NewRequestQueue(maxConcurrent) ==
  [maxConcurrent |-> OrElse(maxConcurrent, DefaultMaxConcurrent),
   active |-> <<>>,
   queue |-> <<>>]

\* enqueue with the ceiling test off by one (> for >=)
enqueueOffByOne(q, id, delayMs, priority) ==
  IF MapSize(q.active) > q.maxConcurrent
    THEN [q |-> [q EXCEPT !.queue =
                   insert(q.queue, [id |-> id,
                                    priority |-> priority,
                                    order |-> size(q.queue),
                                    delayMs |-> OrElse(delayMs, DefaultDelayMs)])],
          resolved |-> FALSE]
    ELSE [q |-> [q EXCEPT !.active =
                   MapSet(q.active, id, OrElse(delayMs, DefaultDelayMs))],
          resolved |-> TRUE]

\* enqueue: the queue afterwards, and whether resolve() was called at once
enqueue(q, id, delayMs, priority) ==
  IF MapSize(q.active) >= q.maxConcurrent
    THEN [q |-> [q EXCEPT !.queue =
                   insert(q.queue, [id |-> id,
                                    priority |-> priority,
                                    order |-> size(q.queue),
                                    delayMs |-> OrElse(delayMs, DefaultDelayMs)])],
          resolved |-> FALSE]
    ELSE [q |-> [q EXCEPT !.active =
                   MapSet(q.active, id, OrElse(delayMs, DefaultDelayMs))],
          resolved |-> TRUE]

\* finish: the timer it hands to setTimeout
finish(group, q, id) ==
  [group |-> group, id |-> id, delayMs |-> MapGet(q.active, id), elapsed |-> 0]

\* the callback that frees the slot and admits nobody
finishTimeoutNoHandoff(q, id) ==
  [q |-> [q EXCEPT !.active = MapDelete(q.active, id)], called |-> <<>>]

\* the callback giving the admitted entry the default delay, not its own
finishTimeoutDefaultDelay(q, id) ==
  LET deleted == MapDelete(q.active, id) IN
  IF MapSize(deleted) < q.maxConcurrent /\ ~isEmpty(q.queue)
    THEN LET entry == root(q.queue) IN
         [q |-> [q EXCEPT !.active = MapSet(deleted, entry.id, DefaultDelayMs),
                          !.queue = extractRoot(q.queue)],
          called |-> <<entry.id>>]
    ELSE [q |-> [q EXCEPT !.active = deleted], called |-> <<>>]

\* the callback admitting the root without testing active.size
finishTimeoutNoCeiling(q, id) ==
  LET deleted == MapDelete(q.active, id) IN
  IF ~isEmpty(q.queue)
    THEN LET entry == root(q.queue) IN
         [q |-> [q EXCEPT !.active = MapSet(deleted, entry.id, entry.delayMs),
                          !.queue = extractRoot(q.queue)],
          called |-> <<entry.id>>]
    ELSE [q |-> [q EXCEPT !.active = deleted], called |-> <<>>]

\* the callback admitting the root and leaving it in the backlog
finishTimeoutPeek(q, id) ==
  LET deleted == MapDelete(q.active, id) IN
  IF MapSize(deleted) < q.maxConcurrent /\ ~isEmpty(q.queue)
    THEN LET entry == root(q.queue) IN
         [q |-> [q EXCEPT !.active = MapSet(deleted, entry.id, entry.delayMs)],
          called |-> <<entry.id>>]
    ELSE [q |-> [q EXCEPT !.active = deleted], called |-> <<>>]

\* the callback finish handed to setTimeout: the queue afterwards, and the
\* ids whose cb was called
finishTimeout(q, id) ==
  LET deleted == MapDelete(q.active, id) IN
  IF MapSize(deleted) < q.maxConcurrent /\ ~isEmpty(q.queue)
    THEN LET entry == root(q.queue) IN
         [q |-> [q EXCEPT !.active = MapSet(deleted, entry.id, entry.delayMs),
                          !.queue = extractRoot(q.queue)],
          called |-> <<entry.id>>]
    ELSE [q |-> [q EXCEPT !.active = deleted], called |-> <<>>]

\* the drain with `if` for `while`: one entry leaves the queue
drainFirstOnly(nodes) ==
  IF isEmpty(nodes) THEN [nodes |-> nodes, called |-> <<>>]
  ELSE [nodes |-> extractRoot(nodes), called |-> <<root(nodes).id>>]

\* while (!queue.queue.isEmpty()) queue.queue.dequeue()?.cb(): the array left
\* and the ids called, in order
RECURSIVE drain(_)
drain(nodes) ==
  IF isEmpty(nodes) THEN [nodes |-> nodes, called |-> <<>>]
  ELSE LET rest == drain(extractRoot(nodes)) IN
       [nodes |-> rest.nodes, called |-> <<root(nodes).id>> \o rest.called]

(* ------------------------------------------------------------------ *)
(* setupQueue                                                          *)
(* ------------------------------------------------------------------ *)
\* the group key taken from the URL alone
groupOfHostOnly(config) == config.host

\* config.queueGroup || new URL(config.url, config.baseURL).host
groupOf(config) == OrElse(config.queueGroup, config.host)

\* the cb of each id in `called` runs: the request leaves the interceptor
Resume(reqs, called, how) ==
  [id \in DOMAIN reqs |->
     LET n == Cardinality({i \in DOMAIN called : called[i] = id}) IN
     IF n = 0 THEN reqs[id]
     ELSE [reqs[id] EXCEPT !.resumed = @ + n,
                           !.how = how,
                           !.status = IF @ = "suspended" THEN "inflight" ELSE @]]

Init ==
  /\ _queues = <<>>
  /\ _counter = 0
  /\ timers = {}
  /\ requests = <<>>
  /\ interceptors = TRUE

\* the request interceptor with the counter read and not incremented
RequestSameId(host, queueGroup, queuePriority, queueDelayMs, reqOptions) ==
  /\ interceptors
  /\ LET config == [host |-> host, queueGroup |-> queueGroup]
         group == groupOf(config)
         queue == IF group \in DOMAIN _queues
                    THEN _queues[group]
                    ELSE NewRequestQueue(reqOptions.maxConcurrent)
         id == _counter
         delayMs == IF queueDelayMs = Undefined THEN reqOptions.delayMs
                    ELSE queueDelayMs
         r == enqueue(queue, id, delayMs, queuePriority)
     IN /\ _queues' = MapSet(_queues, group, r.q)
        /\ _counter' = _counter
        /\ requests' = MapSet(requests, id,
             [host |-> host,
              queueGroup |-> queueGroup,
              queuePriority |-> queuePriority,
              delayMs |-> OrElse(delayMs, DefaultDelayMs),
              status |-> IF r.resolved THEN "inflight" ELSE "suspended",
              resumed |-> IF r.resolved THEN 1 ELSE 0,
              how |-> IF r.resolved THEN "slot" ELSE "none"])
  /\ UNCHANGED <<timers, interceptors>>

\* the request interceptor with the queue's maxConcurrent taken from every
\* request's options
RequestResizes(host, queueGroup, queuePriority, queueDelayMs, reqOptions) ==
  /\ interceptors
  /\ LET config == [host |-> host, queueGroup |-> queueGroup]
         group == groupOf(config)
         queue == IF group \in DOMAIN _queues
                    THEN [_queues[group] EXCEPT !.maxConcurrent =
                            NewRequestQueue(reqOptions.maxConcurrent).maxConcurrent]
                    ELSE NewRequestQueue(reqOptions.maxConcurrent)
         id == _counter
         delayMs == IF queueDelayMs = Undefined THEN reqOptions.delayMs
                    ELSE queueDelayMs
         r == enqueue(queue, id, delayMs, queuePriority)
     IN /\ _queues' = MapSet(_queues, group, r.q)
        /\ _counter' = _counter + 1
        /\ requests' = MapSet(requests, id,
             [host |-> host,
              queueGroup |-> queueGroup,
              queuePriority |-> queuePriority,
              delayMs |-> OrElse(delayMs, DefaultDelayMs),
              status |-> IF r.resolved THEN "inflight" ELSE "suspended",
              resumed |-> IF r.resolved THEN 1 ELSE 0,
              how |-> IF r.resolved THEN "slot" ELSE "none"])
  /\ UNCHANGED <<timers, interceptors>>

\* the request interceptor, up to the end of enqueue's executor
Request(host, queueGroup, queuePriority, queueDelayMs, reqOptions) ==
  /\ interceptors
  /\ LET config == [host |-> host, queueGroup |-> queueGroup]
         group == groupOf(config)
         queue == IF group \in DOMAIN _queues
                    THEN _queues[group]
                    ELSE NewRequestQueue(reqOptions.maxConcurrent)
         id == _counter
         delayMs == IF queueDelayMs = Undefined THEN reqOptions.delayMs
                    ELSE queueDelayMs
         r == enqueue(queue, id, delayMs, queuePriority)
     IN /\ _queues' = MapSet(_queues, group, r.q)
        /\ _counter' = _counter + 1
        /\ requests' = MapSet(requests, id,
             [host |-> host,
              queueGroup |-> queueGroup,
              queuePriority |-> queuePriority,
              delayMs |-> OrElse(delayMs, DefaultDelayMs),
              status |-> IF r.resolved THEN "inflight" ELSE "suspended",
              resumed |-> IF r.resolved THEN 1 ELSE 0,
              how |-> IF r.resolved THEN "slot" ELSE "none"])
  /\ UNCHANGED <<timers, interceptors>>

\* the group key the response interceptor looks the queue up by
responseGroup(config, outcome) ==
  IF outcome = "success" THEN groupOf(config) ELSE config.host

\* the response interceptor: onFulfilled ("success") or onRejected ("error")
Response(id, outcome) ==
  /\ id \in DOMAIN requests
  /\ requests[id].status = "inflight"
  /\ LET group == responseGroup(requests[id], outcome) IN
     timers' = IF group \in DOMAIN _queues
                 THEN timers \cup {finish(group, _queues[group], id)}
                 ELSE timers
  /\ requests' = [requests EXCEPT ![id].status = "done"]
  /\ UNCHANGED <<_queues, _counter, interceptors>>

\* setTimeout(cb) with the delay left out
timeoutOfNoDelay(t) == 0

\* setTimeout(cb, delayMs): an undefined delay is 0
timeoutOf(t) == OrElse(t.delayMs, 0)

\* a timer set by finish expires and its callback runs
TimerFire(t) ==
  /\ t \in timers
  /\ t.elapsed >= timeoutOf(t)
  /\ LET r == finishTimeout(_queues[t.group], t.id) IN
     /\ _queues' = [_queues EXCEPT ![t.group] = r.q]
     /\ requests' = Resume(requests, r.called, "handoff")
  /\ timers' = timers \ {t}
  /\ UNCHANGED <<_counter, interceptors>>

\* TickMs milliseconds pass; a timer never fires before its delay has passed
Tick ==
  /\ \E t \in timers : t.elapsed < timeoutOf(t)
  /\ timers' = {[t EXCEPT !.elapsed =
                   IF @ + TickMs > timeoutOf(t) THEN timeoutOf(t) ELSE @ + TickMs]
                : t \in timers}
  /\ UNCHANGED <<_queues, _counter, requests, interceptors>>

\* for (const queue of instance._queues.values()) { while ... }: the ids called
RECURSIVE drainAll(_)
drainAll(groups) ==
  IF groups = {} THEN <<>>
  ELSE LET g == CHOOSE x \in groups : TRUE IN
       drain(_queues[g].queue).called \o drainAll(groups \ {g})

\* the ejector clearing the pending timers as well
EjectCancelsTimers ==
  /\ _queues' = [g \in DOMAIN _queues |->
                   [_queues[g] EXCEPT !.queue = drain(@).nodes]]
  /\ requests' = Resume(requests, drainAll(DOMAIN _queues), "drain")
  /\ interceptors' = FALSE
  /\ timers' = {}
  /\ UNCHANGED <<_counter>>

\* the ejector returned by setupQueue
Eject ==
  /\ _queues' = [g \in DOMAIN _queues |->
                   [_queues[g] EXCEPT !.queue = drain(@).nodes]]
  /\ requests' = Resume(requests, drainAll(DOMAIN _queues), "drain")
  /\ interceptors' = FALSE
  /\ UNCHANGED <<_counter, timers>>

(* ------------------------------------------------------------------ *)
(* Specifications                                                      *)
(* ------------------------------------------------------------------ *)
Configs ==
  {[host |-> "a", queueGroup |-> Undefined],
   [host |-> "b", queueGroup |-> Undefined],
   [host |-> "a", queueGroup |-> Some("b")]}
Outcomes == {"success", "error"}

\* what onRequest(config) ?? options may give
ReqOptions ==
  [maxConcurrent : {Undefined, Some(1)}, delayMs : {Some(100)}]

Next ==
  \/ \E config \in Configs,
        queueDelayMs \in {Undefined, Some(0)},
        reqOptions \in ReqOptions :
       /\ _counter < MaxReq
       /\ Request(config.host, config.queueGroup, Undefined, queueDelayMs, reqOptions)
  \/ \E id \in DOMAIN requests, outcome \in Outcomes : Response(id, outcome)
  \/ \E t \in timers : TimerFire(t)
  \/ Tick
  \/ Eject

Spec == Init /\ [][Next]_vars

\* One group with one slot, every request with a queuePriority
Priorities == {Some(1), Some(2), Some(3), Some(4)}

NextPrio ==
  \/ \E queuePriority \in Priorities :
       /\ _counter < MaxReqPrio
       /\ Request("a", Undefined, queuePriority, Undefined,
                  [maxConcurrent |-> Some(1), delayMs |-> Some(100)])
  \/ \E id \in DOMAIN requests : Response(id, "success")
  \/ \E t \in timers : TimerFire(t)
  \/ Tick
  \/ Eject

PrioSpec == Init /\ [][NextPrio]_vars

\* One group with one slot, requests without a queuePriority and requests
\* with queuePriority 1, default delay
NextFifo ==
  \/ \E queuePriority \in {Undefined, Some(1)} :
       /\ _counter < MaxReqFifo
       /\ Request("a", Undefined, queuePriority, Undefined,
                  [maxConcurrent |-> Some(1), delayMs |-> Undefined])
  \/ \E id \in DOMAIN requests : Response(id, "success")
  \/ \E t \in timers : TimerFire(t)
  \/ Tick
  \/ Eject

FifoSpec == Init /\ [][NextFifo]_vars

\* Every response arrives and every timer set fires
NextLive ==
  \/ \E config \in Configs, reqOptions \in ReqOptions :
       /\ _counter < MaxReqLive
       /\ Request(config.host, config.queueGroup, Undefined, Undefined, reqOptions)
  \/ \E id \in DOMAIN requests, outcome \in Outcomes : Response(id, outcome)
  \/ \E t \in timers : TimerFire(t)
  \/ Tick
  \/ Eject

LiveSpec ==
  /\ Init /\ [][NextLive]_vars
  /\ WF_vars(\E id \in DOMAIN requests, outcome \in Outcomes : Response(id, outcome))
  /\ WF_vars(\E t \in timers : TimerFire(t))
  /\ WF_vars(Tick)

(* ------------------------------------------------------------------ *)
(* Properties                                                          *)
(* ------------------------------------------------------------------ *)
Groups == DOMAIN _queues
Ids == DOMAIN requests
ActiveIds(g) == DOMAIN _queues[g].active
Entries(g) == {_queues[g].queue[i] : i \in DOMAIN _queues[g].queue}
\* the group a request belongs to: its queueGroup, or else its URL host
OwnGroup(id) == OrElse(requests[id].queueGroup, requests[id].host)

\* C1: in every reachable state, whatever the interleaving of requests,
\* responses, timer expiries and the ejector, no group's active map holds
\* more than the group's maxConcurrent ids.
C1_ActiveWithinMax ==
  \A g \in Groups : MapSize(_queues[g].active) <= _queues[g].maxConcurrent

\* a group of two slots is full again after a timer handed a slot over
C1_Witness ==
  \E g \in Groups :
    /\ _queues[g].maxConcurrent = 2
    /\ MapSize(_queues[g].active) = 2
    /\ \E id \in ActiveIds(g) : requests[id].how = "handoff"

\* timers of finish calls made for an id that was in the group's active map
CooldownTimers(g) == {t \in timers : t.group = g /\ t.delayMs # Undefined}

\* C2: in a group with maxConcurrent = 1, while the timer of finish(id), called
\* for the active request with cooldown d, has run for less than d, every step
\* keeps id in active and admits no other request of the group (no id enters
\* active); so an admission comes no sooner than d after the release call.
C2_CooldownSpacing ==
  [][\A g \in Groups :
       _queues[g].maxConcurrent = 1 =>
         \A t \in CooldownTimers(g) :
           t.elapsed < Get(t.delayMs) =>
             /\ t.id \in DOMAIN _queues'[g].active
             /\ DOMAIN _queues'[g].active \subseteq ActiveIds(g)]_vars

\* a one-slot group whose active request was handed its slot by a timer, was
\* released in turn, and whose own cooldown of 100 ms has now passed while
\* another request still waits
C2_Witness ==
  \E g \in Groups :
    /\ _queues[g].maxConcurrent = 1
    /\ ~isEmpty(_queues[g].queue)
    /\ \E t \in CooldownTimers(g) :
         /\ requests[t.id].how = "handoff"
         /\ Get(t.delayMs) = TickMs
         /\ t.elapsed = Get(t.delayMs)

\* C6: no continuation is ever invoked twice, and once the ejector has run
\* every backlog is empty and every request issued has been resumed once.
C6_DrainComplete ==
  /\ \A id \in Ids : requests[id].resumed <= 1
  /\ ~interceptors =>
       /\ \A g \in Groups : isEmpty(_queues[g].queue)
       /\ \A id \in Ids : requests[id].resumed = 1

\* after the ejector ran: one request was resumed by the drain, another by a
\* timer, all responses are in and every timer has fired
C6_Witness ==
  /\ ~interceptors
  /\ timers = {}
  /\ \E id \in Ids : requests[id].how = "drain"
  /\ \E id \in Ids : requests[id].how = "handoff"
  /\ \A id \in Ids : requests[id].status = "done"

\* C7: a request whose response went through the response hook (success or
\* error, group from the host or from queueGroup) and that still holds a slot
\* of its group has the cooldown timer of finish(id) pending on that group.
C7_FinishOnOwnQueue ==
  \A id \in Ids :
    (requests[id].status = "done" /\ id \in ActiveIds(OwnGroup(id)))
      => \E t \in timers : t.group = OwnGroup(id) /\ t.id = id

\* the groups whose queue a step changes
Changed(g) == g \notin Groups \/ _queues'[g] # _queues[g]

\* C9: a step of one group (request, response, timer expiry) changes no other
\* group's queue, only the ejector touches several; and a request whose own
\* group has a free slot (or no queue yet) is admitted at once into that
\* group, however full the other groups are.
C9_GroupsIndependent ==
  [][/\ Eject \/ \A g1, g2 \in DOMAIN _queues' :
                   (Changed(g1) /\ Changed(g2)) => g1 = g2
     /\ _counter' # _counter =>
          LET id == _counter
              g == OrElse(requests'[id].queueGroup, requests'[id].host) IN
          (g \notin Groups \/ MapSize(_queues[g].active) < _queues[g].maxConcurrent)
            => /\ requests'[id].status = "inflight"
               /\ g \in DOMAIN _queues'
               /\ id \in DOMAIN _queues'[g].active]_vars

\* two one-slot groups, one active request in each, and a third request
\* waiting behind one of them
C9_Witness ==
  \E g1, g2 \in Groups :
    /\ g1 # g2
    /\ _queues[g1].maxConcurrent = 1 /\ MapSize(_queues[g1].active) = 1
    /\ _queues[g2].maxConcurrent = 1 /\ MapSize(_queues[g2].active) = 1
    /\ ~isEmpty(_queues[g1].queue)

\* C10: the delay recorded in active for an id, and the delay of the timer
\* that finish(id) starts on the queue holding the id, is the delayMs that
\* was passed to enqueue for that id.
C10_OwnDelay ==
  /\ \A g \in Groups : \A id \in ActiveIds(g) :
       _queues[g].active[id] = requests[id].delayMs
  /\ \A g \in Groups : \A t \in CooldownTimers(g) :
       Get(t.delayMs) = requests[t.id].delayMs

\* cooldown timers are pending for a request admitted at once and for one
\* admitted from the backlog, with different delays (one the queueDelayMs
\* override 0, the other the configured 100)
C10_Witness ==
  \E t1, t2 \in timers :
    /\ t1.delayMs # Undefined /\ t2.delayMs # Undefined
    /\ requests[t1.id].how = "slot"
    /\ requests[t2.id].how = "handoff"
    /\ Get(t1.delayMs) # Get(t2.delayMs)

\* the backlog entries a step admits: in the backlog before, in active after
Admitted(g) == {e \in Entries(g) : e.id \in DOMAIN _queues'[g].active}

\* the requests of the priority example: priorities 4, 3, 2, 1 in arrival order
PriorityExample ==
  /\ _counter >= 4
  /\ \A id \in 0..3 : requests[id].queuePriority = Some(4 - id)

\* C3: when every waiter of a backlog has a priority, the waiter a timer
\* expiry admits has the least priority number of the backlog; so of requests
\* 0..3 with priorities 4, 3, 2, 1 on one slot, request 2 is not admitted
\* while 3 waits, and request 1 is not admitted while 2 or 3 waits.
C3_PriorityOrder ==
  [][\A g \in Groups : \A e \in Admitted(g) :
       /\ (\A f \in Entries(g) : f.priority # Undefined)
            => \A f \in Entries(g) : Get(e.priority) <= Get(f.priority)
       /\ (PriorityExample /\ e.id \in 1..3)
            => \A f \in Entries(g) : f.id \in 1..3 => f.id <= e.id]_vars

\* requests 0..3 with priorities 4, 3, 2, 1: timers admitted 3, then 2, and 1
\* still waits
C3_Witness ==
  /\ PriorityExample
  /\ requests[3].how = "handoff"
  /\ requests[2].how = "handoff"
  /\ requests[1].status = "suspended"

\* C4: while a backlog holds a waiter with a priority, a timer expiry never
\* admits a waiter without one.
C4_PriorityBeforeNone ==
  [][\A g \in Groups : \A e \in Admitted(g) :
       ~(e.priority = Undefined /\ \E f \in Entries(g) : f.priority # Undefined)]_vars

\* C5: a waiter without priority is admitted from the backlog only when no
\* waiter without priority that arrived earlier (smaller id) is still in it.
C5_ArrivalOrder ==
  [][\A g \in Groups : \A e \in Admitted(g) :
       e.priority = Undefined =>
         \A f \in Entries(g) : f.priority = Undefined => e.id <= f.id]_vars

\* a slot of g is held by a request whose response is in although finish was
\* never called for it on g: the request was not released
Unreleased(g) ==
  \E id \in ActiveIds(g) :
    /\ requests[id].status = "done"
    /\ ~\E t \in timers : t.group = g /\ t.id = id

Released(id) ==
  /\ requests[id].status = "done"
  /\ id \notin ActiveIds(OwnGroup(id))
  /\ ~\E t \in timers : t.group = OwnGroup(id) /\ t.id = id

\* the requests of g that were let through and are not yet released
LetThrough(g) ==
  {id \in Ids : OwnGroup(id) = g /\ requests[id].resumed >= 1 /\ ~Released(id)}

\* C11 (as claimed): the requests of a group whose continuation was resumed
\* and that are not yet released never number more than maxConcurrent,
\* teardown included.
C11_LetThroughWithinMax ==
  \A g \in Groups : Cardinality(LetThrough(g)) <= _queues[g].maxConcurrent

\* C11 (amended): the requests of a group that were admitted to a slot (at
\* once or by a timer's handoff, not resumed by the ejector's drain) and are
\* not yet released never number more than maxConcurrent.
C11_AdmittedWithinMax ==
  \A g \in Groups :
    Cardinality({id \in LetThrough(g) : requests[id].how # "drain"})
      <= _queues[g].maxConcurrent

\* after the ejector ran, a group has as many admitted requests as it has
\* slots and a drained request on top of them, none released yet
C11_Witness ==
  /\ ~interceptors
  /\ \E g \in Groups :
       /\ Cardinality({id \in LetThrough(g) : requests[id].how # "drain"})
            = _queues[g].maxConcurrent
       /\ \E id \in LetThrough(g) : requests[id].how = "drain"

\* the ids a group's queue holds, in active or in the backlog
HeldIn(g) == ActiveIds(g) \cup {e.id : e \in Entries(g)}
Held == UNION {HeldIn(g) : g \in Groups}
HeldNext == UNION {DOMAIN _queues'[g].active \cup
                    {_queues'[g].queue[i].id : i \in DOMAIN _queues'[g].queue}
                   : g \in DOMAIN _queues'}

\* C12: the ids issued so far are exactly 0 .. _counter - 1, one per request;
\* the counter never goes back, and the id a request gets (and its queue is
\* given) is the counter's value, greater than every id issued before,
\* whichever groups the requests belong to.
C12_IdsIncrease ==
  /\ [](DOMAIN requests = 0 .. (_counter - 1))
  /\ [][/\ _counter' >= _counter
        /\ \A id \in (DOMAIN requests' \ DOMAIN requests) \cup (HeldNext \ Held) :
             /\ id = _counter
             /\ _counter' = id + 1
             /\ \A old \in DOMAIN requests \cup Held : old < id]_vars

\* three requests were issued, to one group, then another, then the first
C12_Witness ==
  /\ _counter = 3
  /\ DOMAIN requests = {0, 1, 2}
  /\ OwnGroup(0) # OwnGroup(1)
  /\ OwnGroup(2) = OwnGroup(0)

\* onRequest(config) giving each request its own maxConcurrent: 1 for the
\* requests with an even id, none (the default) for those with an odd id
OverrideOptions(id) ==
  [maxConcurrent |-> IF id % 2 = 0 THEN Some(1) ELSE Undefined,
   delayMs |-> Some(100)]

NextOverride ==
  \/ \E config \in Configs :
       /\ _counter < MaxReq
       /\ Request(config.host, config.queueGroup, Undefined, Undefined,
                  OverrideOptions(_counter))
  \/ \E id \in DOMAIN requests, outcome \in Outcomes : Response(id, outcome)
  \/ \E t \in timers : TimerFire(t)
  \/ Tick
  \/ Eject

OverrideSpec == Init /\ [][NextOverride]_vars

\* C13: a group's queue gets its maxConcurrent from the options of the
\* request that creates it, and no later step, in particular no later request
\* for the group carrying another maxConcurrent, changes it or removes the
\* queue.
C13_MaxConcurrentFixed ==
  [][/\ \A g \in Groups :
          /\ g \in DOMAIN _queues'
          /\ _queues'[g].maxConcurrent = _queues[g].maxConcurrent
     /\ \A g \in DOMAIN _queues' \ Groups :
          _queues'[g].maxConcurrent =
            OrElse(OverrideOptions(_counter).maxConcurrent, DefaultMaxConcurrent)]_vars

\* request 0 created a group with maxConcurrent 1; request 1, whose options
\* carry no maxConcurrent (the default, 2), went to the same group while
\* request 0 held its slot, and had to wait: the queue kept maxConcurrent 1
C13_Witness ==
  /\ {0, 1} \subseteq DOMAIN requests
  /\ OwnGroup(1) = OwnGroup(0)
  /\ _queues[OwnGroup(0)].maxConcurrent = 1
  /\ OverrideOptions(1).maxConcurrent = Undefined
  /\ ActiveIds(OwnGroup(0)) = {0}
  /\ {e.id : e \in Entries(OwnGroup(0))} = {1}

\* C14 (for the waiters still in the backlog, which the claim implies): of two
\* waiters of a group the one enqueued later has the greater order value, so
\* no two waiters of a group have the same one.
C14_OrderIncreases ==
  \A g \in Groups : \A e, f \in Entries(g) :
    e.id < f.id => e.order < f.order

\* C15: a waiter with a priority number is admitted from the backlog only when
\* no waiter of the same priority number that arrived earlier (smaller id) is
\* still in it.
C15_FifoAmongEquals ==
  [][\A g \in Groups : \A e \in Admitted(g) :
       e.priority # Undefined =>
         \A f \in Entries(g) : f.priority = e.priority => e.id <= f.id]_vars

\* C16: a step admits at most one waiter of a group's backlog, and only as the
\* callback of an expired timer of finish on that group: the timer's id is out
\* of active, active (without that id) had a free slot, the backlog loses
\* that one waiter, who is in active with its own delayMs and resumed once.
\* The step in which finish sets its timer changes no queue and resumes
\* nobody.
C16_OneInOneOut ==
  [][\A g \in Groups :
       /\ Cardinality(Admitted(g)) <= 1
       /\ (\E t \in timers' : t \notin timers /\ t.elapsed = 0 /\ timers \subseteq timers')
            => /\ _queues' = _queues
               /\ \A id \in Ids : requests'[id].resumed = requests[id].resumed
       /\ \A e \in Admitted(g) :
            /\ \E t \in timers :
                 /\ timers' = timers \ {t}
                 /\ t.group = g
                 /\ t.elapsed >= timeoutOf(t)
                 /\ t.id \notin DOMAIN _queues'[g].active
                 /\ Cardinality(ActiveIds(g) \ {t.id}) < _queues[g].maxConcurrent
                 /\ DOMAIN _queues'[g].active = (ActiveIds(g) \ {t.id}) \cup {e.id}
            /\ Len(_queues'[g].queue) = Len(_queues[g].queue) - 1
            /\ _queues'[g].active[e.id] = e.delayMs
            /\ requests'[e.id].resumed = requests[e.id].resumed + 1
            /\ requests'[e.id].status = "inflight"]_vars

\* a timer's callback admitted one of two waiters of a full group, with that
\* waiter's own delayMs (0, not the 100 of the options); the other still waits
C16_Witness ==
  \E g \in Groups : \E id \in ActiveIds(g) :
    /\ requests[id].how = "handoff"
    /\ requests[id].delayMs = 0
    /\ _queues[g].active[id] = 0
    /\ MapSize(_queues[g].active) = _queues[g].maxConcurrent
    /\ ~isEmpty(_queues[g].queue)

\* C17: in every reachable state no id is both in the active map and in the
\* backlog of a queue, no id is twice in a backlog and no id is held by two
\* queues; when a timer of finish(id) fires, the queue it was set on holds id
\* neither in active nor in its backlog afterwards; and an issued id that no
\* queue holds is never held again.
C17_ReleasedIsTerminal ==
  /\ [](\A g \in Groups :
          /\ ActiveIds(g) \cap {e.id : e \in Entries(g)} = {}
          /\ Cardinality({e.id : e \in Entries(g)}) = Len(_queues[g].queue)
          /\ \A h \in Groups \ {g} : HeldIn(g) \cap HeldIn(h) = {})
  /\ [][/\ \A t \in timers :
             timers' = timers \ {t} =>
               /\ t.id \notin DOMAIN _queues'[t.group].active
               /\ \A i \in DOMAIN _queues'[t.group].queue :
                    _queues'[t.group].queue[i].id # t.id
        /\ \A id \in Ids : id \notin Held => id \notin HeldNext]_vars

\* a request that held a slot was finished and its timer has fired: no queue
\* holds its id, while other requests are still held
C17_Witness ==
  \E id \in Ids :
    /\ requests[id].how \in {"slot", "handoff"}
    /\ Released(id)
    /\ id \notin Held
    /\ Held # {}
    /\ \E g \in Groups : ~isEmpty(_queues[g].queue)

\* RequestQueue.finish called directly on a group's queue (the class is
\* exported), while fewer than MaxTimers timers are pending
Finish(group, id) ==
  /\ group \in DOMAIN _queues
  /\ Cardinality(timers) < MaxTimers
  /\ finish(group, _queues[group], id) \notin timers
  /\ timers' = timers \cup {finish(group, _queues[group], id)}
  /\ UNCHANGED <<_queues, _counter, requests, interceptors>>

\* an id no request ever gets
UnknownId == -1

\* One host; besides the interceptors' calls, finish is called for ids that
\* are not waiting in the backlog: ids in active (a second finish), released
\* ids, ids resumed by the drain and an unknown id
NextApi ==
  \/ \E reqOptions \in ReqOptions :
       /\ _counter < MaxReq
       /\ Request("a", Undefined, Undefined, Undefined, reqOptions)
  \/ \E id \in DOMAIN requests : Response(id, "success")
  \/ \E t \in timers : TimerFire(t)
  \/ Tick
  \/ Eject
  \/ \E g \in DOMAIN _queues, id \in DOMAIN requests \cup {UnknownId} :
       /\ \A i \in DOMAIN _queues[g].queue : _queues[g].queue[i].id # id
       /\ Finish(g, id)

ApiSpec == Init /\ [][NextApi]_vars

\* C18: the step in which finish sets its timer changes no queue and resumes
\* nobody, and for an id that is not in active the timer carries no delay;
\* when a timer of finish(id) fires and id is not in active (never was, was
\* released by an earlier timer, the first of two for the same id included, or
\* was resumed by the drain), the step changes no queue and no request.
C18_StaleFinishNoOp ==
  [][/\ \A t \in timers' \ timers :
          (t.elapsed = 0 /\ timers \subseteq timers') =>
            /\ _queues' = _queues
            /\ \A id \in Ids : requests'[id].resumed = requests[id].resumed
            /\ t.id \notin ActiveIds(t.group) => t.delayMs = Undefined
     /\ \A t \in timers :
          (timers' = timers \ {t} /\ t.id \notin ActiveIds(t.group)) =>
            /\ _queues' = _queues
            /\ requests' = requests]_vars

\* finish was called twice for a request that held a slot: the first timer
\* has released the id, the second, set with the id's delay while the id was
\* still in active, is due, and the group is full with a waiter in the backlog
C18_Witness ==
  \E t \in timers :
    /\ t.id \in Ids
    /\ t.id \notin ActiveIds(t.group)
    /\ t.delayMs # Undefined
    /\ t.elapsed >= timeoutOf(t)
    /\ MapSize(_queues[t.group].active) = _queues[t.group].maxConcurrent
    /\ ~isEmpty(_queues[t.group].queue)

\* C19: the step in which the ejector first runs changes no group's active map
\* and no timer, and leaves no group a backlog; once it has run every backlog
\* stays empty, so that a second run calls nobody; and the timers still fire
\* afterwards: a timer leaving the set after the ejector ran leaves its id out
\* of active.
C19_DrainKeepsActiveAndTimers ==
  /\ [](~interceptors => drainAll(DOMAIN _queues) = <<>>)
  /\ [][/\ (interceptors /\ ~interceptors') =>
             /\ timers' = timers
             /\ DOMAIN _queues' = DOMAIN _queues
             /\ \A g \in Groups :
                  /\ _queues'[g].active = _queues[g].active
                  /\ isEmpty(_queues'[g].queue)
        /\ ~interceptors =>
             /\ ~interceptors'
             /\ \A t \in timers :
                  t \notin timers' =>
                    \/ t.id \notin DOMAIN _queues'[t.group].active
                    \/ \E u \in timers' : u = [t EXCEPT !.elapsed = u.elapsed]]_vars

\* a group with one slot got two requests: the first took the slot, the second
\* waited until the ejector resumed it (a timer would have handed it the
\* slot); the first was finished and its timer, set before or after the drain,
\* fired after it and took the id out of active
C19_Witness ==
  \E g \in Groups : \E x, y \in Ids :
    /\ ~interceptors
    /\ {id \in Ids : OwnGroup(id) = g} = {x, y}
    /\ requests[x].how = "slot"
    /\ requests[y].how = "drain"
    /\ requests[x].queueGroup = Undefined
    /\ Released(x)
    /\ ActiveIds(g) = {}

\* C20: in every reachable state a group's backlog is non-empty only if its
\* active map holds maxConcurrent ids; a request arriving at a group with a
\* free slot is put in active and the backlog stays as it was; and a timer
\* expiry that removes an id from active while a waiter is in the backlog
\* admits a waiter, so that active is full again.
C20_NoIdleSlot ==
  /\ [](\A g \in Groups :
          ~isEmpty(_queues[g].queue)
            => MapSize(_queues[g].active) = _queues[g].maxConcurrent)
  /\ [][\A g \in Groups :
          /\ ( /\ MapSize(_queues[g].active) < _queues[g].maxConcurrent
               /\ _counter' = _counter + 1
               /\ _queues'[g] # _queues[g] )
               => /\ _queues'[g].queue = _queues[g].queue
                  /\ DOMAIN _queues'[g].active = ActiveIds(g) \cup {_counter}
                  /\ requests'[_counter].how = "slot"
          /\ \A t \in timers :
               ( /\ timers' = timers \ {t}
                 /\ t.group = g
                 /\ t.id \in ActiveIds(g)
                 /\ ~isEmpty(_queues[g].queue) )
                 => /\ Admitted(g) # {}
                    /\ MapSize(_queues'[g].active) = _queues[g].maxConcurrent]_vars

\* under load: three requests of a group with one slot; the second got the
\* slot from the first's timer, the third still waits and the slot is taken
C20_Witness ==
  \E g \in Groups :
    /\ _queues[g].maxConcurrent = 1
    /\ Cardinality({id \in Ids : OwnGroup(id) = g}) = 3
    /\ \E id \in ActiveIds(g) : requests[id].how = "handoff"
    /\ Len(_queues[g].queue) = 1

====
